---- MODULE Spec2Model ----
(***************************************************************************)
(* Model of src/graph.rs: the `graph` sub-command.  cmd resolves the       *)
(* configuration paths, loads the configuration, renders its topology in   *)
(* the dialect named by --output-format and prints the document.           *)
(*                                                                         *)
(* A String built with write!/writeln! is modelled as the sequence of the  *)
(* writes that built it; one write is the sequence of the literal pieces   *)
(* of its format string interleaved with the formatted arguments.  Text    *)
(* gives the characters of such a value.                                   *)
(***************************************************************************)
EXTENDS Naturals, Sequences, FiniteSets

(* ---------------------------------------------------------------------- *)
(* Bounds of the configurations explored                                   *)
(* ---------------------------------------------------------------------- *)
MaxNodes == 3
MaxEdges == 2

(* exitcode::OK, exitcode::CONFIG (crate exitcode), clap's usage error *)
OK == 0
CONFIG == 78
USAGE == 2

(* Option<T>: None is the empty sequence, Some(x) is <<x>> *)
None == <<>>
Some(x) == <<x>>

(* ---------------------------------------------------------------------- *)
(* Generic helpers                                                         *)
(* ---------------------------------------------------------------------- *)
RECURSIVE Flatten(_)
Flatten(ss) == IF ss = <<>> THEN <<>> ELSE Head(ss) \o Flatten(Tail(ss))

(* the characters of one write: its pieces from the i-th on, concatenated *)
RECURSIVE ConcatStr(_, _)
ConcatStr(ps, i) == IF i > Len(ps) THEN "" ELSE ps[i] \o ConcatStr(ps, i + 1)

(* the characters of a value built by the writes doc[i], doc[i+1], ... *)
RECURSIVE TextFrom(_, _)
TextFrom(doc, i) == IF i > Len(doc) THEN "" ELSE ConcatStr(doc[i], 1) \o TextFrom(doc, i + 1)

Text(doc) == TextFrom(doc, 1)

(* ---------------------------------------------------------------------- *)
(* The configuration model handed to the renderers                         *)
(* ---------------------------------------------------------------------- *)
IdPool == <<"in", "route", "out", "aux", "tap", "mix">>
PortNames == {"a"}

(* Identifiers are opaque to the renderers (never compared, only printed),  *)
(* so the n components are named along the pool, which is not in sorted    *)
(* order.                                                                  *)
Naming(n) == SubSeq(IdPool, 1, n)

OutputIds(comps) == [component : comps, port : {None} \cup {Some(p) : p \in PortNames}]

(* the input references of all targets, as (target index, reference) in    *)
(* target order                                                            *)
EdgeLists(t, refs) ==
    UNION { { es \in [1..e -> (1..t) \X refs] :
                \A i \in 1..e : \A j \in 1..e : i < j => es[i][1] <= es[j][1] }
            : e \in 0..MaxEdges }

InputsOf(es, k) ==
    LET mine == SelectSeq(es, LAMBDA x : x[1] = k)
    IN  [j \in 1..Len(mine) |-> mine[j][2]]

Range(s) == { s[i] : i \in 1..Len(s) }

Shapes ==
    { s \in (0..MaxNodes) \X (0..MaxNodes) \X (0..MaxNodes) : s[1] + s[2] + s[3] <= MaxNodes }

(* the configuration of ns sources, nt transforms and nk sinks named nm    *)
(* whose input references are es                                           *)
MkConfig(ns, nt, nk, nm, es) ==
    [ sources    |-> SubSeq(nm, 1, ns),
      transforms |-> [i \in 1..nt |-> [id |-> nm[ns + i], inputs |-> InputsOf(es, i)]],
      sinks      |-> [i \in 1..nk |-> [id |-> nm[ns + nt + i], inputs |-> InputsOf(es, nt + i)]] ]

(* ---------------------------------------------------------------------- *)
(* Formatting                                                              *)
(* ---------------------------------------------------------------------- *)
(* Display of an OutputId: the component, followed by ".port" when the     *)
(* reference is port-qualified                                             *)
OutputIdDisplay(input) ==
    IF input.port = None THEN input.component
    ELSE input.component \o "." \o input.port[1]

(* writeln!(s, fmt, args): the pieces of the formatted line and a newline *)
writeln(pieces) == Append(pieces, "\n")

(* ---------------------------------------------------------------------- *)
(* graphviz_graph                                                          *)
(* ---------------------------------------------------------------------- *)
graphviz_source(id) == writeln(<<"  \"", id, "\" [shape=trapezium]">>)

(* variant: the labelled branch formats the whole reference as the origin *)
graphviz_edge_DisplayFrom(input, id) ==
    IF input.port # None
    THEN writeln(<<"  \"", OutputIdDisplay(input), "\" -> \"", id, "\" [label=\"", input.port[1], "\"]">>)
    ELSE writeln(<<"  \"", OutputIdDisplay(input), "\" -> \"", id, "\"">>)

graphviz_edge(input, id) ==
    IF input.port # None
    THEN writeln(<<"  \"", input.component, "\" -> \"", id, "\" [label=\"", input.port[1], "\"]">>)
    ELSE writeln(<<"  \"", OutputIdDisplay(input), "\" -> \"", id, "\"">>)

(* variant: the inputs are written before the transform's own statement *)
graphviz_transform_EdgesFirst(t) ==
    [j \in 1..Len(t.inputs) |-> graphviz_edge(t.inputs[j], t.id)]
    \o <<writeln(<<"  \"", t.id, "\" [shape=diamond]">>)>>

graphviz_transform(t) ==
    <<writeln(<<"  \"", t.id, "\" [shape=diamond]">>)>>
    \o [j \in 1..Len(t.inputs) |-> graphviz_edge(t.inputs[j], t.id)]

(* variant: the inputs of a sink are not written *)
graphviz_sink_NoEdges(k) ==
    <<writeln(<<"  \"", k.id, "\" [shape=invtrapezium]">>)>>

graphviz_sink(k) ==
    <<writeln(<<"  \"", k.id, "\" [shape=invtrapezium]">>)>>
    \o [j \in 1..Len(k.inputs) |-> graphviz_edge(k.inputs[j], k.id)]

(* variant: the sinks are written before the transforms *)
graphviz_graph_SinksFirst(cfg) ==
    << <<"digraph {\n">> >>
    \o [i \in 1..Len(cfg.sources) |-> graphviz_source(cfg.sources[i])]
    \o Flatten([i \in 1..Len(cfg.sinks) |-> graphviz_sink(cfg.sinks[i])])
    \o Flatten([i \in 1..Len(cfg.transforms) |-> graphviz_transform(cfg.transforms[i])])
    \o << <<"}">> >>

graphviz_graph(cfg) ==
    << <<"digraph {\n">> >>
    \o [i \in 1..Len(cfg.sources) |-> graphviz_source(cfg.sources[i])]
    \o Flatten([i \in 1..Len(cfg.transforms) |-> graphviz_transform(cfg.transforms[i])])
    \o Flatten([i \in 1..Len(cfg.sinks) |-> graphviz_sink(cfg.sinks[i])])
    \o << <<"}">> >>

(* ---------------------------------------------------------------------- *)
(* mermaid_graph                                                           *)
(* ---------------------------------------------------------------------- *)
mermaid_source(id) == writeln(<<"  ", id, "[/", id, "\\]">>)

(* variant: the arrow points from the target to the referenced component *)
mermaid_edge_Reversed(input, id) ==
    IF input.port # None
    THEN writeln(<<"  ", id, "--", input.port[1], "-->", input.component>>)
    ELSE writeln(<<"  ", id, "-->", OutputIdDisplay(input)>>)

mermaid_edge(input, id) ==
    IF input.port # None
    THEN writeln(<<"  ", input.component, "--", input.port[1], "-->", id>>)
    ELSE writeln(<<"  ", OutputIdDisplay(input), "-->", id>>)

mermaid_transform(t) ==
    <<writeln(<<"  ", t.id, "[{ ", t.id, " }]">>)>>
    \o [j \in 1..Len(t.inputs) |-> mermaid_edge(t.inputs[j], t.id)]

mermaid_sink(k) ==
    <<writeln(<<"  ", k.id, "[\\ ", k.id, " /]">>)>>
    \o [j \in 1..Len(k.inputs) |-> mermaid_edge(k.inputs[j], k.id)]

(* variant: the sources are not written *)
mermaid_graph_NoSources(cfg) ==
    << <<"flowchart TD\n">> >>
    \o Flatten([i \in 1..Len(cfg.transforms) |-> mermaid_transform(cfg.transforms[i])])
    \o Flatten([i \in 1..Len(cfg.sinks) |-> mermaid_sink(cfg.sinks[i])])

mermaid_graph(cfg) ==
    << <<"flowchart TD\n">> >>
    \o [i \in 1..Len(cfg.sources) |-> mermaid_source(cfg.sources[i])]
    \o Flatten([i \in 1..Len(cfg.transforms) |-> mermaid_transform(cfg.transforms[i])])
    \o Flatten([i \in 1..Len(cfg.sinks) |-> mermaid_sink(cfg.sinks[i])])

(* ---------------------------------------------------------------------- *)
(* State                                                                   *)
(* ---------------------------------------------------------------------- *)
VARIABLES
    pc,             \* position of the process
    output_format,  \* Opts::output_format as parsed: None while absent
    config,         \* the loaded Config: None until load_from_paths succeeds
    graph,          \* the local `graph` of cmd
    calls,          \* the renderers invoked, in order
    stdout,         \* the values written to standard output, in order
    exit_code       \* the exit status: None while running

vars == <<pc, output_format, config, graph, calls, stdout, exit_code>>

Formats == {"dot", "mermaid", "svg"}

Init ==
    /\ pc = "args"
    /\ output_format = None
    /\ config = None
    /\ graph = <<>>
    /\ calls = <<>>
    /\ stdout = <<>>
    /\ exit_code = None

(* Opts: `output_format: String` has no default value, so the parser       *)
(* requires --output-format; the command line that omits it is rejected    *)
(* with a usage error and cmd is not entered.                              *)
ParseArgsGiven ==
    /\ pc = "args"
    /\ \E f \in Formats : output_format' = Some(f)
    /\ pc' = "cmd"
    /\ UNCHANGED <<config, graph, calls, stdout, exit_code>>

ParseArgsOmitted ==
    /\ pc = "args"
    /\ pc' = "exit"
    /\ exit_code' = Some(USAGE)
    /\ UNCHANGED <<output_format, config, graph, calls, stdout>>

(* cmd, lines 85-89: config::process_paths *)
ProcessPathsSome ==
    /\ pc = "cmd"
    /\ pc' = "paths"
    /\ UNCHANGED <<output_format, config, graph, calls, stdout, exit_code>>

ProcessPathsNone ==
    /\ pc = "cmd"
    /\ pc' = "exit"
    /\ exit_code' = Some(CONFIG)
    /\ UNCHANGED <<output_format, config, graph, calls, stdout>>

(* cmd, lines 91-100: config::load_from_paths *)
LoadFromPathsOk ==
    /\ pc = "paths"
    /\ \E sh \in Shapes :
         LET nm == Naming(sh[1] + sh[2] + sh[3])
         IN  \E es \in EdgeLists(sh[2] + sh[3], OutputIds(Range(SubSeq(nm, 1, sh[1] + sh[2])))) :
               config' = Some(MkConfig(sh[1], sh[2], sh[3], nm, es))
    /\ pc' = "loaded"
    /\ UNCHANGED <<output_format, graph, calls, stdout, exit_code>>

(* println!("{}", graph) *)
println(g) == Text(g) \o "\n"

(* variant: the load error is reported but the status is OK *)
LoadFromPathsErr_ReturnsOk ==
    /\ pc = "paths"
    /\ pc' = "exit"
    /\ exit_code' = Some(OK)
    /\ UNCHANGED <<output_format, config, graph, calls, stdout>>

LoadFromPathsErr ==
    /\ pc = "paths"
    /\ pc' = "exit"
    /\ exit_code' = Some(CONFIG)
    /\ UNCHANGED <<output_format, config, graph, calls, stdout>>

(* cmd, lines 102-119: dispatch on the format, print, return OK *)
DispatchDot ==
    /\ pc = "loaded"
    /\ output_format[1] = "dot"
    /\ graph' = graphviz_graph(config[1])
    /\ calls' = Append(calls, "graphviz_graph")
    /\ stdout' = Append(stdout, println(graph'))
    /\ exit_code' = Some(OK)
    /\ pc' = "exit"
    /\ UNCHANGED <<output_format, config>>

DispatchMermaid ==
    /\ pc = "loaded"
    /\ output_format[1] # "dot"
    /\ output_format[1] = "mermaid"
    /\ graph' = mermaid_graph(config[1])
    /\ calls' = Append(calls, "mermaid_graph")
    /\ stdout' = Append(stdout, println(graph'))
    /\ exit_code' = Some(OK)
    /\ pc' = "exit"
    /\ UNCHANGED <<output_format, config>>

(* variant: an unrecognised format falls back to the DOT renderer *)
DispatchOther_FallsBackToDot ==
    /\ pc = "loaded"
    /\ output_format[1] # "dot"
    /\ output_format[1] # "mermaid"
    /\ graph' = graphviz_graph(config[1])
    /\ calls' = Append(calls, "graphviz_graph")
    /\ stdout' = Append(stdout, println(graph'))
    /\ exit_code' = Some(OK)
    /\ pc' = "exit"
    /\ UNCHANGED <<output_format, config>>

DispatchOther ==
    /\ pc = "loaded"
    /\ output_format[1] # "dot"
    /\ output_format[1] # "mermaid"
    /\ graph' = <<>>
    /\ stdout' = Append(stdout, println(graph'))
    /\ exit_code' = Some(OK)
    /\ pc' = "exit"
    /\ UNCHANGED <<output_format, config, calls>>

Next ==
    \/ ParseArgsGiven
    \/ ParseArgsOmitted
    \/ ProcessPathsSome
    \/ ProcessPathsNone
    \/ LoadFromPathsOk
    \/ LoadFromPathsErr
    \/ DispatchDot
    \/ DispatchMermaid
    \/ DispatchOther

Spec == Init /\ [][Next]_vars

TypeOK ==
    /\ pc \in {"args", "cmd", "paths", "loaded", "exit"}
    /\ output_format \in {None} \cup {Some(f) : f \in Formats}
    /\ config = None \/ Len(config[1].sources) + Len(config[1].transforms) + Len(config[1].sinks) <= MaxNodes
    /\ Len(calls) <= 1
    /\ Len(stdout) <= 1
    /\ exit_code \in {None, Some(OK), Some(CONFIG), Some(USAGE)}

(* ---------------------------------------------------------------------- *)
(* Reading a rendered document back: the statement one write amounts to.   *)
(* A node statement is <<"node", id, kind>>, an edge statement is          *)
(* <<"edge", from, to, label>> with label an Option, anything else (the    *)
(* header, the closing brace) is <<"other">>.                              *)
(* ---------------------------------------------------------------------- *)
DotShapeKind(attr) ==
    CASE attr = "\" [shape=trapezium]"    -> Some("Source")
      [] attr = "\" [shape=diamond]"      -> Some("Transform")
      [] attr = "\" [shape=invtrapezium]" -> Some("Sink")
      [] OTHER                            -> None

DotStmt(w) ==
    IF Len(w) = 4 /\ w[1] = "  \"" /\ DotShapeKind(w[3]) # None /\ w[4] = "\n"
    THEN <<"node", w[2], DotShapeKind(w[3])[1]>>
    ELSE IF Len(w) = 8 /\ w[1] = "  \"" /\ w[3] = "\" -> \"" /\ w[5] = "\" [label=\""
            /\ w[7] = "\"]" /\ w[8] = "\n"
    THEN <<"edge", w[2], w[4], Some(w[6])>>
    ELSE IF Len(w) = 6 /\ w[1] = "  \"" /\ w[3] = "\" -> \"" /\ w[5] = "\"" /\ w[6] = "\n"
    THEN <<"edge", w[2], w[4], None>>
    ELSE <<"other">>

MermaidShapeKind(open, close) ==
    CASE open = "[/"   /\ close = "\\]" -> Some("Source")
      [] open = "[{ "  /\ close = " }]" -> Some("Transform")
      [] open = "[\\ " /\ close = " /]" -> Some("Sink")
      [] OTHER                          -> None

MermaidStmt(w) ==
    IF Len(w) = 6 /\ w[1] = "  " /\ MermaidShapeKind(w[3], w[5]) # None /\ w[2] = w[4] /\ w[6] = "\n"
    THEN <<"node", w[2], MermaidShapeKind(w[3], w[5])[1]>>
    ELSE IF Len(w) = 7 /\ w[1] = "  " /\ w[3] = "--" /\ w[5] = "-->" /\ w[7] = "\n"
    THEN <<"edge", w[2], w[6], Some(w[4])>>
    ELSE IF Len(w) = 5 /\ w[1] = "  " /\ w[3] = "-->" /\ w[5] = "\n"
    THEN <<"edge", w[2], w[4], None>>
    ELSE <<"other">>

DotStmts(doc) == SelectSeq([i \in 1..Len(doc) |-> DotStmt(doc[i])], LAMBDA st : st[1] # "other")
MermaidStmts(doc) == SelectSeq([i \in 1..Len(doc) |-> MermaidStmt(doc[i])], LAMBDA st : st[1] # "other")

IsNode(st) == st[1] = "node"
IsEdge(st) == st[1] = "edge"
NodeStmts(sts) == SelectSeq(sts, IsNode)
EdgeStmts(sts) == SelectSeq(sts, IsEdge)

(* the process has returned from cmd after invoking a renderer *)
Rendered == pc = "exit" /\ calls # <<>>

(* the statements of the document the invoked renderer produced *)
Stmts == IF calls[1] = "graphviz_graph" THEN DotStmts(graph) ELSE MermaidStmts(graph)

(* the statements of the other dialect's document for the same configuration *)
OtherStmts ==
    IF calls[1] = "graphviz_graph" THEN MermaidStmts(mermaid_graph(config[1]))
    ELSE DotStmts(graphviz_graph(config[1]))

(* what the configuration declares *)
Targets(cfg) == cfg.transforms \o cfg.sinks
DeclaredNodes(cfg) ==
    [i \in 1..Len(cfg.sources) |-> <<"node", cfg.sources[i], "Source">>]
    \o [i \in 1..Len(cfg.transforms) |-> <<"node", cfg.transforms[i].id, "Transform">>]
    \o [i \in 1..Len(cfg.sinks) |-> <<"node", cfg.sinks[i].id, "Sink">>]
DeclaredIds(cfg) ==
    Range(cfg.sources) \cup { cfg.transforms[i].id : i \in 1..Len(cfg.transforms) }
                       \cup { cfg.sinks[i].id : i \in 1..Len(cfg.sinks) }
RECURSIVE SumInputs(_)
SumInputs(ts) == IF ts = <<>> THEN 0 ELSE Len(Head(ts).inputs) + SumInputs(Tail(ts))
UniqueIds(cfg) ==
    Cardinality(DeclaredIds(cfg)) = Len(cfg.sources) + Len(cfg.transforms) + Len(cfg.sinks)
RefsDeclared(cfg) ==
    LET ts  == Targets(cfg)
        ids == DeclaredIds(cfg)
    IN  \A k \in 1..Len(ts) : \A j \in 1..Len(ts[k].inputs) : ts[k].inputs[j].component \in ids
Count(sts, P(_)) == Len(SelectSeq(sts, P))

(* ---------------------------------------------------------------------- *)
(* Claims                                                                  *)
(* ---------------------------------------------------------------------- *)

(* C1: when loading succeeds and the format is neither "dot" nor "mermaid" *)
(* cmd ends in an explicit error and prints no (empty) document.           *)
C1_InvalidFormatIsError ==
    (pc = "exit" /\ config # None /\ output_format[1] \notin {"dot", "mermaid"})
        => (exit_code # Some(OK) /\ stdout = <<>>)

(* C2: when process_paths or load_from_paths fails cmd returns the         *)
(* non-zero configuration-error status, invokes no renderer and writes     *)
(* nothing to standard output.                                             *)
C2_ConfigFailureAborts ==
    (pc = "exit" /\ output_format # None /\ config = None)
        => (exit_code = Some(CONFIG) /\ CONFIG # 0 /\ calls = <<>> /\ stdout = <<>> /\ graph = <<>>)

C2_Witness == pc = "exit" /\ output_format = Some("dot") /\ config = None

(* C3: the node statements of the rendered document are, in order, the     *)
(* sources, then the transforms, then the sinks, each in collection order. *)
C3_NodeOrder == Rendered => NodeStmts(Stmts) = DeclaredNodes(config[1])

C3_Witness ==
    /\ Rendered
    /\ Len(config[1].sources) >= 1 /\ Len(config[1].transforms) >= 1 /\ Len(config[1].sinks) >= 1
    /\ config[1].sinks[1].id = "out"
    /\ SumInputs(Targets(config[1])) >= 1

(* C4: the j-th input reference of a target is rendered as the j-th edge   *)
(* into that target, coming from the referenced component and labelled     *)
(* with exactly the port when the reference is port-qualified and with     *)
(* nothing when it is not.                                                 *)
C4_EdgeLabels ==
    Rendered =>
        LET ts  == Targets(config[1])
            all == EdgeStmts(Stmts)
        IN  \A k \in 1..Len(ts) :
                LET es == SelectSeq(all, LAMBDA st : st[3] = ts[k].id)
                IN  \A j \in 1..Len(ts[k].inputs) :
                        /\ j <= Len(es)
                        /\ es[j][2] = ts[k].inputs[j].component
                        /\ es[j][4] = ts[k].inputs[j].port

C4_Witness ==
    /\ Rendered
    /\ \E k \in 1..Len(Targets(config[1])) :
          LET ins == Targets(config[1])[k].inputs
          IN  Len(ins) = 2 /\ ins[1].port # None /\ ins[2].port = None

(* C5: when identifiers are unique and every reference names a declared    *)
(* component, every from and to of an edge statement is the identifier of  *)
(* exactly one node statement.                                             *)
C5_EdgeEndsAreNodes ==
    (Rendered /\ UniqueIds(config[1]) /\ RefsDeclared(config[1])) =>
        LET es == EdgeStmts(Stmts)
            ns == NodeStmts(Stmts)
        IN  \A i \in 1..Len(es) :
                \A x \in {es[i][2], es[i][3]} :
                    Count(ns, LAMBDA st : st[2] = x) = 1

C5_Witness ==
    /\ Rendered /\ UniqueIds(config[1]) /\ RefsDeclared(config[1])
    /\ Len(EdgeStmts(Stmts)) = 2
    /\ \E i \in 1..2 : EdgeStmts(Stmts)[i][2] \in Range(config[1].sources)
    /\ \E i \in 1..2 : EdgeStmts(Stmts)[i][2] \notin Range(config[1].sources)

(* C6: the "dot" and the "mermaid" documents of one configuration have the *)
(* same sequence of node identifiers and kinds and the same sequence of    *)
(* edges (from, to, label).                                                *)
C6_SameGraph == Rendered => Stmts = OtherStmts

C6_Witness ==
    /\ Rendered
    /\ Len(NodeStmts(Stmts)) = 3
    /\ \E i \in 1..Len(EdgeStmts(Stmts)) : EdgeStmts(Stmts)[i][4] # None
    /\ \E i \in 1..Len(EdgeStmts(Stmts)) : EdgeStmts(Stmts)[i][4] = None

(* C7: with the output-format option omitted the run behaves as with       *)
(* "dot": it is not rejected, and when it succeeds the DOT renderer was    *)
(* invoked and its document printed.                                       *)
C7_DefaultIsDot ==
    (pc = "exit" /\ output_format = None) =>
        /\ exit_code \in {Some(OK), Some(CONFIG)}
        /\ exit_code = Some(OK) =>
              (calls = <<"graphviz_graph">> /\ stdout = <<println(graphviz_graph(config[1]))>>)

(* C8: every edge statement follows the node statement of its target with  *)
(* only edges of that target in between; the targets come transforms       *)
(* first, then sinks, in collection order; the edges of one target are in  *)
(* the order of its declared inputs.                                       *)
NodeBefore(sts, i) ==
    LET ns == { n \in 1..(i - 1) : IsNode(sts[n]) }
    IN  IF ns = {} THEN 0 ELSE CHOOSE n \in ns : \A m \in ns : m <= n

C8_EdgeGrouping ==
    Rendered =>
        LET sts == Stmts
            cfg == config[1]
            ts  == Targets(cfg)
            tns == SelectSeq(NodeStmts(sts), LAMBDA st : st[3] # "Source")
        IN  /\ \A i \in 1..Len(sts) :
                  IsEdge(sts[i]) =>
                      LET n == NodeBefore(sts, i)
                      IN  /\ n # 0
                          /\ sts[n][2] = sts[i][3]
                          /\ sts[n][3] # "Source"
            /\ tns = [k \in 1..Len(ts) |->
                        <<"node", ts[k].id,
                          IF k <= Len(cfg.transforms) THEN "Transform" ELSE "Sink">>]
            /\ \A n \in 1..Len(sts) :
                  IsNode(sts[n]) =>
                      \A k \in 1..Len(ts) :
                          ts[k].id = sts[n][2] =>
                              \A j \in 1..Len(ts[k].inputs) :
                                  /\ n + j <= Len(sts)
                                  /\ sts[n + j] = <<"edge", ts[k].inputs[j].component,
                                                    sts[n][2], ts[k].inputs[j].port>>

C8_Witness ==
    /\ Rendered
    /\ Len(config[1].transforms) >= 1 /\ Len(config[1].sinks) >= 1
    /\ Len(config[1].transforms[1].inputs) = 1
    /\ Len(config[1].sinks[1].inputs) = 1

(* C9: the document has exactly one node statement per declared component  *)
(* and exactly one edge statement per input reference of every transform   *)
(* and sink, none for sources; without transforms and sinks it has one     *)
(* node statement per source and no edge statement.                        *)
C9_StatementCounts ==
    Rendered =>
        LET sts == Stmts
            cfg == config[1]
            ts  == Targets(cfg)
            ns  == NodeStmts(sts)
            es  == EdgeStmts(sts)
        IN  /\ Len(ns) = Len(cfg.sources) + Len(cfg.transforms) + Len(cfg.sinks)
            /\ \A id \in DeclaredIds(cfg) : Count(ns, LAMBDA st : st[2] = id) = 1
            /\ Len(es) = SumInputs(ts)
            /\ \A k \in 1..Len(ts) :
                  Count(es, LAMBDA st : st[3] = ts[k].id) = Len(ts[k].inputs)
            /\ \A i \in 1..Len(cfg.sources) :
                  Count(es, LAMBDA st : st[3] = cfg.sources[i]) = 0
            /\ Len(sts) = Len(ns) + Len(es)
            /\ (cfg.transforms = <<>> /\ cfg.sinks = <<>>) =>
                  (es = <<>> /\ Len(ns) = Len(cfg.sources))

C9_Witness ==
    /\ Rendered
    /\ Len(config[1].sources) = 1 /\ Len(config[1].transforms) = 1 /\ Len(config[1].sinks) = 1
    /\ SumInputs(Targets(config[1])) = 2
    /\ Len(config[1].sinks[1].inputs) = 2

(* C10: after a successful load cmd ends having written exactly one value  *)
(* and returned OK; at most one renderer was invoked; the value is the DOT *)
(* document iff the format is exactly "dot", the Mermaid document iff it   *)
(* is exactly "mermaid", and the empty string otherwise.                   *)
C10_DispatchOutcome ==
    (pc = "exit" /\ config # None) =>
        LET f == output_format[1]
            cfg == config[1]
        IN  /\ Len(stdout) = 1
            /\ exit_code = Some(OK)
            /\ Len(calls) <= 1
            /\ (stdout[1] = println(graphviz_graph(cfg))) <=> (f = "dot")
            /\ (stdout[1] = println(mermaid_graph(cfg))) <=> (f = "mermaid")
            /\ (f \notin {"dot", "mermaid"}) => (stdout[1] = println(<<>>) /\ calls = <<>>)
            /\ (f = "dot") => calls = <<"graphviz_graph">>
            /\ (f = "mermaid") => calls = <<"mermaid_graph">>

C10_Witness ==
    /\ pc = "exit" /\ config # None
    /\ output_format = Some("svg")
    /\ stdout = <<"\n">>
    /\ config[1].sources # <<>>

====
